---- MODULE Spec2Model ----
(***************************************************************************)
(* Model of src/main.rs: the identity resolver (create_user_id_map), the   *)
(* streaming pass of process_tsv_file over the input rows, the flat-file   *)
(* writer and the SQLite transaction it drives.                            *)
(*                                                                         *)
(* A run of main is followed by control through the program counter pc;    *)
(* every fallible call of the source (each `?`, each match on Err) is a    *)
(* nondeterministic choice between its Ok and its Err outcome.             *)
(***************************************************************************)
EXTENDS Integers, Sequences, FiniteSets, TLC

\* ------------------------------------------------------------------ bounds
MaxRecs == 2        \* rows in the input file
MaxUsers == 2       \* identities in one instance's user list
MaxRuns == 2        \* invocations of process_tsv_file against the same table

\* ------------------------------------------------------------ finite maps
\* HashMap<String, String>: a function whose DOMAIN is the key set.
EmptyMap == <<>>

MapInsertOverwrite(m, k, v) ==
    [x \in (DOMAIN m) \cup {k} |-> IF x = k THEN v ELSE m[x]]

MapInsertKeepFirst(m, k, v) ==
    [x \in (DOMAIN m) \cup {k} |-> IF x \in DOMAIN m THEN m[x] ELSE v]

\* HashMap::insert: a later insert of a key replaces the earlier value.
MapInsert(m, k, v) == MapInsertOverwrite(m, k, v)

\* --------------------------------------------------------- identity lists
User(i, n) == [id |-> i, name |-> n]

RECURSIVE SeqsUpTo(_, _)
SeqsUpTo(S, n) ==
    IF n = 0 THEN {<<>>}
    ELSE LET shorter == SeqsUpTo(S, n - 1)
         IN  shorter \cup {Append(s, x) : s \in {t \in shorter : Len(t) = n - 1}, x \in S}

\* An id names one account of an instance: no two entries of a list share it.
DistinctIds(users) ==
    \A i, j \in 1..Len(users) : users[i].id = users[j].id => i = j

UserLists(pool) == {l \in SeqsUpTo(pool, MaxUsers) : DistinctIds(l)}

\* The accounts the two instances can hold when the whole pipeline runs.
OldPool == {User("u1", "alice"), User("u2", "bob")}
NewPool == {User("u2", "alice"), User("u3", "bob")}

\* The accounts the two instances can hold when the resolver is examined alone.
ResolveIds == {"u1", "u2", "u3"}
ResolveNames == {"alice", "bob"}
ResolvePool == {User(i, n) : i \in ResolveIds, n \in ResolveNames}

\* ------------------------------------------------------ create_user_id_map
\* new_users.iter().map(|u| (&u.name, &u.id)).collect(): inserted in list order.
RECURSIVE NewUsersByNameToId(_, _)
NewUsersByNameToId(new_users, acc) ==
    IF new_users = <<>> THEN acc
    ELSE NewUsersByNameToId(Tail(new_users),
                            MapInsert(acc, Head(new_users).name, Head(new_users).id))

\* Mutant: an old user without a match is mapped to its own id.
RECURSIVE MapOldUsersAll(_, _, _)
MapOldUsersAll(old_users, lookup, acc) ==
    IF old_users = <<>> THEN acc
    ELSE LET old_user == Head(old_users)
         IN  MapOldUsersAll(Tail(old_users), lookup,
                 MapInsertOverwrite(acc, old_user.id,
                     IF old_user.name \in DOMAIN lookup
                     THEN lookup[old_user.name] ELSE old_user.id))

\* for old_user in old_users { if let Some(new_id) = lookup.get(name) { insert } }
RECURSIVE MapOldUsers(_, _, _)
MapOldUsers(old_users, lookup, acc) ==
    IF old_users = <<>> THEN acc
    ELSE LET old_user == Head(old_users)
         IN  MapOldUsers(Tail(old_users), lookup,
                 IF old_user.name \in DOMAIN lookup
                 THEN MapInsert(acc, old_user.id, lookup[old_user.name])
                 ELSE acc)

create_user_id_map(old_users, new_users) ==
    MapOldUsers(old_users, NewUsersByNameToId(new_users, EmptyMap), EmptyMap)


\* ------------------------------------------------------------ TsvRecord
\* A row of the file is its sequence of tab-separated fields; the schema has nine.
FieldCount == 9

HeaderRow ==
    <<"DateCreated", "UserId", "ItemId", "ItemType", "ItemName",
      "PlaybackMethod", "ClientName", "DeviceName", "PlayDuration">>

\* rdr.deserialize(): the fields of a row, by position, into the struct.
Deserialize(row) ==
    [date_created |-> row[1], user_id |-> row[2], item_id |-> row[3],
     item_type |-> row[4], item_name |-> row[5], playback_method |-> row[6],
     client_name |-> row[7], device_name |-> row[8], play_duration |-> row[9]]

\* wtr.serialize(&record): the fields of the struct, in declaration order.
Serialize(r) ==
    <<r.date_created, r.user_id, r.item_id, r.item_type, r.item_name,
      r.playback_method, r.client_name, r.device_name, r.play_duration>>

WellFormed(row) == Len(row) = FieldCount

GoodRow(u, i) ==
    <<"2024-01-01T00:00:00", u, i, "Movie", "Foo", "DirectPlay", "Web", "Chrome", "120">>

\* A row with too few fields.
BadRow == <<"2024-01-01T00:00:00", "u1", "item-1">>

InputRows == {GoodRow("u1", "item-1"), GoodRow("u2", "item-1"), BadRow}

\* Rows the table may hold before the first run.
PreRows == {Deserialize(GoodRow("u2", "item-1"))}

NoRecord == <<>>

\* ------------------------------------------------------------ SQLite table
\* Mutant: the WHERE clause leaves out the UserId column.
SameRowIgnoringUser(r, s) ==
    /\ r.date_created = s.date_created
    /\ r.item_id = s.item_id
    /\ r.item_type = s.item_type
    /\ r.item_name = s.item_name
    /\ r.playback_method = s.playback_method
    /\ r.client_name = s.client_name
    /\ r.device_name = s.device_name
    /\ r.play_duration = s.play_duration

\* WHERE DateCreated = ?1 AND UserId = ?2 AND ... AND PlayDuration = ?9
SameRow(r, s) ==
    /\ r.date_created = s.date_created
    /\ r.user_id = s.user_id
    /\ r.item_id = s.item_id
    /\ r.item_type = s.item_type
    /\ r.item_name = s.item_name
    /\ r.playback_method = s.playback_method
    /\ r.client_name = s.client_name
    /\ r.device_name = s.device_name
    /\ r.play_duration = s.play_duration

\* Mutant: only the most recent row is compared.
RecordExistsLastOnly(rows, record) ==
    /\ rows # <<>>
    /\ rows[Len(rows)] = record

\* SELECT EXISTS(SELECT 1 FROM table WHERE ... LIMIT 1), over the rows the
\* connection sees: the committed ones and those of its open transaction.
RecordExists(rows, record) ==
    \E i \in 1..Len(rows) : SameRow(rows[i], record)

\* Mutant: the row is inserted without the existence check.
insert_record_into_db(committed, pending, record) ==
    [inserted |-> TRUE, pending |-> Append(pending, record)]

\* Ok(false) when the row exists, else INSERT and Ok(true).
check_and_insert_record_into_db(committed, pending, record) ==
    IF RecordExists(committed \o pending, record)
    THEN [inserted |-> FALSE, pending |-> pending]
    ELSE [inserted |-> TRUE, pending |-> Append(pending, record)]

\* COMMIT: the rows of the transaction join the table.
CommitTx(committed, pending) == committed \o pending

\* Mutant: ROLLBACK keeps the rows of the transaction.
RollbackKeepsRows(committed, pending) == committed \o pending

\* ROLLBACK: the rows of the transaction are discarded.
RollbackTx(committed, pending) == committed

\* Mutant: closing the connection keeps the rows of an open transaction.
DropKeepsRows(committed, pending) == committed \o pending

\* The Connection goes out of scope when process_tsv_file returns: closing it
\* discards a transaction that is still open.
DropConnection(committed, pending) == committed

\* Mutant: a failed rollback replaces the error that caused it.
PropagatedErrorMasked(original, rollback_ok) ==
    IF rollback_ok THEN original ELSE "RollbackError"

\* return Err(Box::new(e)): the error handed to the caller after the rollback attempt.
PropagatedError(original, rollback_ok) == original

\* ------------------------------------------------------------------ state
VARIABLES
    pc,                       \* position of control in main / process_tsv_file
    run,                      \* number of the current invocation of process_tsv_file
    server_old, server_new,   \* the accounts the two instances hold
    old_users_vec, new_users_vec,
    fetch_failed,             \* the instances whose user fetch returned Err
    user_id_map,
    input,                    \* rows of the input file
    has_tsv, has_sqlite,      \* config.output_tsv_file_path / sqlite_db_path is Some
    rdr_pos,                  \* rows the reader has yielded
    record,                   \* the loop's current record
    out_file,                 \* rows handed to the output file, in order
    wtr_records,              \* records serialize() has accepted, in order
    table,                    \* committed rows of the table
    tx_rows,                  \* rows inserted by the open transaction
    tx_active,
    records_processed, records_changed,
    records_inserted_sqlite, records_skipped_sqlite,
    changes_summary,
    outcome,                  \* "running", "Ok", or the error returned
    log,                      \* calls made on the sinks in this run, in order
    originals,                \* records as read, before the rewrite, in order
    table_at_start,           \* the table when this run began
    first_run                 \* what the previous completed run reported

vars ==
    <<pc, run, server_old, server_new, old_users_vec, new_users_vec, fetch_failed,
      user_id_map, input, has_tsv, has_sqlite, rdr_pos, record, out_file, wtr_records,
      table, tx_rows, tx_active, records_processed, records_changed,
      records_inserted_sqlite, records_skipped_sqlite, changes_summary,
      outcome, log, originals, table_at_start, first_run>>

identity_vars ==
    <<server_old, server_new, old_users_vec, new_users_vec, fetch_failed, user_id_map>>
config_vars == <<input, has_tsv, has_sqlite>>
reader_vars == <<rdr_pos, record, originals>>
writer_vars == <<out_file, wtr_records>>
store_vars == <<table, tx_rows, tx_active>>
counter_vars ==
    <<records_processed, records_changed, records_inserted_sqlite,
      records_skipped_sqlite, changes_summary>>
history_vars == <<run, table_at_start, first_run>>

NoRun == [done |-> FALSE, inserted |-> 0, skipped |-> 0, processed |-> 0, table |-> <<>>]

\* Nothing has run: the locals of main and process_tsv_file at their initial values.
InitLocals ==
    /\ table_at_start = table
    /\ run = 1
    /\ old_users_vec = <<>>
    /\ new_users_vec = <<>>
    /\ fetch_failed = {}
    /\ user_id_map = EmptyMap
    /\ rdr_pos = 0
    /\ record = NoRecord
    /\ out_file = <<>>
    /\ wtr_records = <<>>
    /\ tx_rows = <<>>
    /\ tx_active = FALSE
    /\ records_processed = 0
    /\ records_changed = 0
    /\ records_inserted_sqlite = 0
    /\ records_skipped_sqlite = 0
    /\ changes_summary = EmptyMap
    /\ outcome = "running"
    /\ log = <<>>
    /\ originals = <<>>
    /\ first_run = NoRun
    /\ pc = "fetch_old"

Init ==
    /\ server_old \in UserLists(OldPool)
    /\ server_new \in UserLists(NewPool)
    /\ input \in SeqsUpTo(InputRows, MaxRecs)
    /\ has_tsv \in BOOLEAN
    /\ has_sqlite \in BOOLEAN
    /\ table \in {<<>>} \cup {<<r>> : r \in PreRows}
    /\ InitLocals

\* The resolver alone: any two user lists, no input and no sink.
InitResolve ==
    /\ server_old \in UserLists(ResolvePool)
    /\ server_new \in UserLists(ResolvePool)
    /\ input = <<>>
    /\ has_tsv = FALSE
    /\ has_sqlite = FALSE
    /\ table = <<>>
    /\ InitLocals

\* ------------------------------------------------------------------- main
\* match fetch_users_from_instance(&config.instance_old, ..): Err leaves the Vec empty.
FetchOldUsers ==
    /\ pc = "fetch_old"
    /\ \E ok \in BOOLEAN :
          /\ old_users_vec' = IF ok THEN server_old ELSE <<>>
          /\ fetch_failed' = IF ok THEN fetch_failed ELSE fetch_failed \cup {"old"}
    /\ pc' = "fetch_new"
    /\ UNCHANGED <<server_old, server_new, new_users_vec, user_id_map, config_vars,
                   reader_vars, writer_vars, store_vars, counter_vars, outcome, log,
                   history_vars>>

\* Mutant: the error of the fetch is propagated with `?` and ends the run.
FetchNewUsersFatal ==
    /\ pc = "fetch_new"
    /\ \E ok \in BOOLEAN :
          IF ok
          THEN /\ new_users_vec' = server_new
               /\ pc' = "create_map"
               /\ UNCHANGED <<fetch_failed, outcome>>
          ELSE /\ fetch_failed' = fetch_failed \cup {"new"}
               /\ pc' = "aborted"
               /\ outcome' = "FetchError"
               /\ UNCHANGED new_users_vec
    /\ UNCHANGED <<server_old, server_new, old_users_vec, user_id_map, config_vars,
                   reader_vars, writer_vars, store_vars, counter_vars, log,
                   history_vars>>

FetchNewUsers ==
    /\ pc = "fetch_new"
    /\ \E ok \in BOOLEAN :
          /\ new_users_vec' = IF ok THEN server_new ELSE <<>>
          /\ fetch_failed' = IF ok THEN fetch_failed ELSE fetch_failed \cup {"new"}
    /\ pc' = "create_map"
    /\ UNCHANGED <<server_old, server_new, old_users_vec, user_id_map, config_vars,
                   reader_vars, writer_vars, store_vars, counter_vars, outcome, log,
                   history_vars>>

CreateUserIdMap ==
    /\ pc = "create_map"
    /\ user_id_map' = create_user_id_map(old_users_vec, new_users_vec)
    /\ pc' = "open_input"
    /\ UNCHANGED <<server_old, server_new, old_users_vec, new_users_vec, fetch_failed,
                   config_vars,
                   reader_vars, writer_vars, store_vars, counter_vars, outcome, log,
                   history_vars>>

\* ------------------------------------------------------- process_tsv_file
\* `return Err(e)` / `?`: the function returns, its Connection is dropped.
ReturnErr(e, committed, pending) ==
    /\ pc' = "aborted"
    /\ outcome' = e
    /\ table' = DropConnection(committed, pending)
    /\ tx_rows' = <<>>
    /\ tx_active' = FALSE

\* fs::File::open(..)? for the line count, then ReaderBuilder .. from_path(..)?
OpenInput ==
    /\ pc = "open_input"
    /\ \E ok \in BOOLEAN :
          IF ok
          THEN /\ pc' = "setup_writer"
               /\ UNCHANGED <<outcome, store_vars>>
          ELSE ReturnErr("IoError", table, tx_rows)
    /\ UNCHANGED <<identity_vars, config_vars, reader_vars, writer_vars, counter_vars,
                   log, history_vars>>

\* WriterBuilder .. from_path(path)?: the output file is created or truncated.
SetupWriter ==
    /\ pc = "setup_writer"
    /\ IF has_tsv
       THEN \E ok \in BOOLEAN :
               IF ok
               THEN /\ out_file' = <<>>
                    /\ pc' = "setup_sqlite"
                    /\ UNCHANGED <<outcome, store_vars>>
               ELSE /\ ReturnErr("IoError", table, tx_rows)
                    /\ UNCHANGED out_file
       ELSE /\ pc' = "setup_sqlite"
            /\ UNCHANGED <<out_file, outcome, store_vars>>
    /\ UNCHANGED <<identity_vars, config_vars, reader_vars, wtr_records, counter_vars,
                   log, history_vars>>

\* Mutant: a failed BEGIN is treated as non-critical and the run goes on.
SetupSqliteIgnoresBeginFailure ==
    /\ pc = "setup_sqlite"
    /\ IF has_sqlite
       THEN \/ /\ ReturnErr("OpenError", table, tx_rows)
               /\ UNCHANGED log
            \/ /\ log' = Append(log, "begin_failed")
               /\ pc' = "read"
               /\ UNCHANGED <<outcome, store_vars>>
            \/ /\ tx_active' = TRUE
               /\ tx_rows' = <<>>
               /\ log' = Append(log, "begin")
               /\ pc' = "read"
               /\ UNCHANGED <<outcome, table>>
       ELSE /\ pc' = "read"
            /\ UNCHANGED <<outcome, store_vars, log>>
    /\ UNCHANGED <<identity_vars, config_vars, reader_vars, writer_vars, counter_vars,
                   history_vars>>

\* Connection::open(path)?, then BEGIN IMMEDIATE TRANSACTION.
SetupSqlite ==
    /\ pc = "setup_sqlite"
    /\ IF has_sqlite
       THEN \/ /\ ReturnErr("OpenError", table, tx_rows)
               /\ UNCHANGED log
            \/ /\ ReturnErr("BeginError", table, tx_rows)
               /\ log' = Append(log, "begin_failed")
            \/ /\ tx_active' = TRUE
               /\ tx_rows' = <<>>
               /\ log' = Append(log, "begin")
               /\ pc' = "read"
               /\ UNCHANGED <<outcome, table>>
       ELSE /\ pc' = "read"
            /\ UNCHANGED <<outcome, store_vars, log>>
    /\ UNCHANGED <<identity_vars, config_vars, reader_vars, writer_vars, counter_vars,
                   history_vars>>

\* Mutant: a malformed row is skipped and the loop goes on.
ReadRecordSkipsMalformed ==
    /\ pc = "read"
    /\ IF rdr_pos = Len(input)
       THEN /\ pc' = "flush"
            /\ UNCHANGED <<rdr_pos, record, originals, records_processed, log>>
       ELSE LET row == input[rdr_pos + 1]
            IN  /\ rdr_pos' = rdr_pos + 1
                /\ IF WellFormed(row)
                   THEN /\ record' = Deserialize(row)
                        /\ originals' = Append(originals, Deserialize(row))
                        /\ records_processed' = records_processed + 1
                        /\ log' = Append(log, "read")
                        /\ pc' = "rewrite"
                   ELSE /\ log' = Append(log, "read_failed")
                        /\ pc' = "read"
                        /\ UNCHANGED <<record, originals, records_processed>>
    /\ UNCHANGED <<identity_vars, config_vars, writer_vars, records_changed,
                   records_inserted_sqlite, records_skipped_sqlite, changes_summary,
                   outcome, store_vars, history_vars>>

\* for result in rdr.deserialize() { let mut record = result?; records_processed += 1;
ReadRecord ==
    /\ pc = "read"
    /\ IF rdr_pos = Len(input)
       THEN /\ pc' = "flush"
            /\ UNCHANGED <<rdr_pos, record, originals, records_processed, outcome,
                           store_vars, log>>
       ELSE LET row == input[rdr_pos + 1]
            IN  /\ rdr_pos' = rdr_pos + 1
                /\ IF WellFormed(row)
                   THEN /\ record' = Deserialize(row)
                        /\ originals' = Append(originals, Deserialize(row))
                        /\ records_processed' = records_processed + 1
                        /\ log' = Append(log, "read")
                        /\ pc' = "rewrite"
                        /\ UNCHANGED <<outcome, store_vars>>
                   ELSE /\ ReturnErr("MalformedRecord", table, tx_rows)
                        /\ log' = Append(log, "read_failed")
                        /\ UNCHANGED <<record, originals, records_processed>>
    /\ UNCHANGED <<identity_vars, config_vars, writer_vars, records_changed,
                   records_inserted_sqlite, records_skipped_sqlite, changes_summary,
                   history_vars>>

\* Mutant: the mapped id is stored in the item id field.
RewrittenWrongField(r, map) ==
    IF r.user_id \in DOMAIN map THEN [r EXCEPT !.item_id = map[r.user_id]] ELSE r

\* Mutant: the map is applied again to the id it has just produced.
RewrittenTransitive(r, map) ==
    IF r.user_id \in DOMAIN map
    THEN [r EXCEPT !.user_id =
             IF map[r.user_id] \in DOMAIN map THEN map[map[r.user_id]] ELSE map[r.user_id]]
    ELSE r

\* The record after `if let Some(new_user_id) = user_id_map.get(&record.user_id)`.
Rewritten(r, map) ==
    IF r.user_id \in DOMAIN map THEN [r EXCEPT !.user_id = map[r.user_id]] ELSE r

\* Mutant: the entry is inserted anew for every rewritten record.
SummaryAddOverwrites(summary, old_id, new_id) ==
    [x \in (DOMAIN summary) \cup {old_id} |->
        IF x = old_id THEN [new_id |-> new_id, count |-> 1] ELSE summary[x]]

\* changes_summary.entry(old).or_insert_with(|| (new, 0)); *count += 1
SummaryAdd(summary, old_id, new_id) ==
    IF old_id \in DOMAIN summary
    THEN [summary EXCEPT ![old_id] = [new_id |-> @.new_id, count |-> @.count + 1]]
    ELSE [x \in (DOMAIN summary) \cup {old_id} |->
            IF x = old_id THEN [new_id |-> new_id, count |-> 1] ELSE summary[x]]

\* Mutant: the rewritten record goes to the table without passing the writer.
RewriteRecordSkipsWriter ==
    /\ pc = "rewrite"
    /\ record' = Rewritten(record, user_id_map)
    /\ IF record.user_id \in DOMAIN user_id_map
       THEN /\ records_changed' = records_changed + 1
            /\ changes_summary' =
                  SummaryAdd(changes_summary, record.user_id, user_id_map[record.user_id])
       ELSE UNCHANGED <<records_changed, changes_summary>>
    /\ log' = Append(log, "rewrite")
    /\ pc' = "write_sqlite"
    /\ UNCHANGED <<identity_vars, config_vars, rdr_pos, originals, writer_vars,
                   store_vars, records_processed, records_inserted_sqlite,
                   records_skipped_sqlite, outcome, history_vars>>

RewriteRecord ==
    /\ pc = "rewrite"
    /\ record' = Rewritten(record, user_id_map)
    /\ IF record.user_id \in DOMAIN user_id_map
       THEN /\ records_changed' = records_changed + 1
            /\ changes_summary' =
                  SummaryAdd(changes_summary, record.user_id, user_id_map[record.user_id])
       ELSE UNCHANGED <<records_changed, changes_summary>>
    /\ log' = Append(log, "rewrite")
    /\ pc' = "write_tsv"
    /\ UNCHANGED <<identity_vars, config_vars, rdr_pos, originals, writer_vars,
                   store_vars, records_processed, records_inserted_sqlite,
                   records_skipped_sqlite, outcome, history_vars>>

\* The rows of the file after wtr.serialize(&record): the builder leaves
\* has_headers at its default, so the first struct serialized is preceded by
\* a row of the field names.
FileAfterSerialize(file, r) ==
    IF file = <<>> THEN <<HeaderRow, Serialize(r)>> ELSE Append(file, Serialize(r))

\* Mutant: the writer drops a record it has already accepted.
AcceptedDeduplicated(accepted, r) ==
    IF \E i \in 1..Len(accepted) : accepted[i] = r THEN accepted ELSE Append(accepted, r)

\* The records the writer has accepted after wtr.serialize(&record).
AcceptedAfterSerialize(accepted, r) == Append(accepted, r)

\* if let Some(ref mut wtr_instance) = tsv_wtr { wtr_instance.serialize(&record)?; }
WriteTsv ==
    /\ pc = "write_tsv"
    /\ IF has_tsv
       THEN \E ok \in BOOLEAN :
               IF ok
               THEN /\ out_file' = FileAfterSerialize(out_file, record)
                    /\ wtr_records' = AcceptedAfterSerialize(wtr_records, record)
                    /\ log' = Append(log, "write")
                    /\ pc' = "write_sqlite"
                    /\ UNCHANGED <<outcome, store_vars>>
               ELSE /\ ReturnErr("WriteError", table, tx_rows)
                    /\ log' = Append(log, "write_failed")
                    /\ UNCHANGED writer_vars
       ELSE /\ pc' = "write_sqlite"
            /\ UNCHANGED <<writer_vars, outcome, store_vars, log>>
    /\ UNCHANGED <<identity_vars, config_vars, reader_vars, counter_vars, history_vars>>

\* conn.execute_batch("ROLLBACK;") followed by `return Err(..)`: when the
\* rollback fails the transaction is still open as the Connection is dropped.
RollbackAndReturn(e, rb_ok) ==
    /\ ReturnErr(PropagatedError(e, rb_ok),
                 IF rb_ok THEN RollbackTx(table, tx_rows) ELSE table,
                 IF rb_ok THEN <<>> ELSE tx_rows)

\* Mutant: a skipped duplicate is not counted.
WriteSqliteUncountedSkip ==
    /\ pc = "write_sqlite"
    /\ IF has_sqlite
       THEN \/ LET res == check_and_insert_record_into_db(table, tx_rows, record)
               IN  /\ tx_rows' = res.pending
                   /\ IF res.inserted
                      THEN /\ records_inserted_sqlite' = records_inserted_sqlite + 1
                           /\ log' = Append(log, "insert")
                           /\ UNCHANGED records_skipped_sqlite
                      ELSE /\ log' = Append(log, "skip")
                           /\ UNCHANGED <<records_inserted_sqlite, records_skipped_sqlite>>
                   /\ pc' = "read"
                   /\ UNCHANGED <<outcome, table, tx_active>>
            \/ \E rb_ok \in BOOLEAN :
                   /\ RollbackAndReturn("InsertError", rb_ok)
                   /\ log' = log \o <<"check_insert_failed",
                                      IF rb_ok THEN "rollback" ELSE "rollback_failed">>
                   /\ UNCHANGED <<records_inserted_sqlite, records_skipped_sqlite>>
       ELSE /\ pc' = "read"
            /\ UNCHANGED <<outcome, store_vars, log, records_inserted_sqlite,
                           records_skipped_sqlite>>
    /\ UNCHANGED <<identity_vars, config_vars, reader_vars, writer_vars,
                   records_processed, records_changed, changes_summary, history_vars>>

\* Mutant: after a failed check_and_insert and its rollback the loop goes on.
WriteSqliteContinuesAfterError ==
    /\ pc = "write_sqlite"
    /\ IF has_sqlite
       THEN \/ LET res == check_and_insert_record_into_db(table, tx_rows, record)
               IN  /\ tx_rows' = res.pending
                   /\ IF res.inserted
                      THEN /\ records_inserted_sqlite' = records_inserted_sqlite + 1
                           /\ log' = Append(log, "insert")
                           /\ UNCHANGED records_skipped_sqlite
                      ELSE /\ records_skipped_sqlite' = records_skipped_sqlite + 1
                           /\ log' = Append(log, "skip")
                           /\ UNCHANGED records_inserted_sqlite
                   /\ pc' = "read"
                   /\ UNCHANGED <<outcome, table, tx_active>>
            \/ /\ tx_rows' = <<>>
               /\ tx_active' = FALSE
               /\ log' = log \o <<"check_insert_failed", "rollback">>
               /\ pc' = "read"
               /\ UNCHANGED <<outcome, table, records_inserted_sqlite,
                              records_skipped_sqlite>>
       ELSE /\ pc' = "read"
            /\ UNCHANGED <<outcome, store_vars, log, records_inserted_sqlite,
                           records_skipped_sqlite>>
    /\ UNCHANGED <<identity_vars, config_vars, reader_vars, writer_vars,
                   records_processed, records_changed, changes_summary, history_vars>>

\* if let Some(ref conn_instance) = sqlite_conn { match check_and_insert_.. }
WriteSqlite ==
    /\ pc = "write_sqlite"
    /\ IF has_sqlite
       THEN \/ LET res == check_and_insert_record_into_db(table, tx_rows, record)
               IN  /\ tx_rows' = res.pending
                   /\ IF res.inserted
                      THEN /\ records_inserted_sqlite' = records_inserted_sqlite + 1
                           /\ log' = Append(log, "insert")
                           /\ UNCHANGED records_skipped_sqlite
                      ELSE /\ records_skipped_sqlite' = records_skipped_sqlite + 1
                           /\ log' = Append(log, "skip")
                           /\ UNCHANGED records_inserted_sqlite
                   /\ pc' = "read"
                   /\ UNCHANGED <<outcome, table, tx_active>>
            \/ \E rb_ok \in BOOLEAN :
                   /\ RollbackAndReturn("InsertError", rb_ok)
                   /\ log' = log \o <<"check_insert_failed",
                                      IF rb_ok THEN "rollback" ELSE "rollback_failed">>
                   /\ UNCHANGED <<records_inserted_sqlite, records_skipped_sqlite>>
       ELSE /\ pc' = "read"
            /\ UNCHANGED <<outcome, store_vars, log, records_inserted_sqlite,
                           records_skipped_sqlite>>
    /\ UNCHANGED <<identity_vars, config_vars, reader_vars, writer_vars,
                   records_processed, records_changed, changes_summary, history_vars>>

\* Mutant: after the flush the function goes straight to the summary.
FlushTsvSkipsCommit ==
    /\ pc = "flush"
    /\ IF has_tsv
       THEN \E ok \in BOOLEAN :
               IF ok
               THEN /\ log' = Append(log, "flush")
                    /\ pc' = "summary"
                    /\ UNCHANGED <<outcome, store_vars>>
               ELSE /\ ReturnErr("FlushError", table, tx_rows)
                    /\ log' = Append(log, "flush_failed")
       ELSE /\ pc' = "summary"
            /\ UNCHANGED <<outcome, store_vars, log>>
    /\ UNCHANGED <<identity_vars, config_vars, reader_vars, writer_vars, counter_vars,
                   history_vars>>

\* if let Some(ref mut wtr_instance) = tsv_wtr { wtr_instance.flush()?; }
FlushTsv ==
    /\ pc = "flush"
    /\ IF has_tsv
       THEN \E ok \in BOOLEAN :
               IF ok
               THEN /\ log' = Append(log, "flush")
                    /\ pc' = "commit"
                    /\ UNCHANGED <<outcome, store_vars>>
               ELSE /\ ReturnErr("FlushError", table, tx_rows)
                    /\ log' = Append(log, "flush_failed")
       ELSE /\ pc' = "commit"
            /\ UNCHANGED <<outcome, store_vars, log>>
    /\ UNCHANGED <<identity_vars, config_vars, reader_vars, writer_vars, counter_vars,
                   history_vars>>

\* if let Some(conn_instance) = &sqlite_conn { match conn.execute_batch("COMMIT;") .. }
CommitSqlite ==
    /\ pc = "commit"
    /\ IF has_sqlite
       THEN \/ /\ table' = CommitTx(table, tx_rows)
               /\ tx_rows' = <<>>
               /\ tx_active' = FALSE
               /\ log' = Append(log, "commit")
               /\ pc' = "summary"
               /\ UNCHANGED outcome
            \/ \E rb_ok \in BOOLEAN :
                   /\ RollbackAndReturn("CommitError", rb_ok)
                   /\ log' = log \o <<"commit_failed",
                                      IF rb_ok THEN "rollback" ELSE "rollback_failed">>
       ELSE /\ pc' = "summary"
            /\ UNCHANGED <<outcome, store_vars, log>>
    /\ UNCHANGED <<identity_vars, config_vars, reader_vars, writer_vars, counter_vars,
                   history_vars>>

\* The summary is printed and Ok(()) returned.
PrintSummary ==
    /\ pc = "summary"
    /\ pc' = "done"
    /\ outcome' = "Ok"
    /\ table' = DropConnection(table, tx_rows)
    /\ tx_rows' = <<>>
    /\ tx_active' = FALSE
    /\ UNCHANGED <<identity_vars, config_vars, reader_vars, writer_vars, counter_vars,
                   log, history_vars>>

\* The operator runs the program again on the same input, configuration and
\* identity map, against the table the previous run left.
Rerun ==
    /\ pc \in {"done", "aborted"}
    /\ run < MaxRuns
    /\ run' = run + 1
    /\ first_run' = [done |-> pc = "done",
                     inserted |-> records_inserted_sqlite,
                     skipped |-> records_skipped_sqlite,
                     processed |-> records_processed,
                     table |-> table]
    /\ table_at_start' = table
    /\ rdr_pos' = 0
    /\ record' = NoRecord
    /\ originals' = <<>>
    /\ wtr_records' = <<>>
    /\ records_processed' = 0
    /\ records_changed' = 0
    /\ records_inserted_sqlite' = 0
    /\ records_skipped_sqlite' = 0
    /\ changes_summary' = EmptyMap
    /\ outcome' = "running"
    /\ log' = <<>>
    /\ pc' = "open_input"
    /\ UNCHANGED <<identity_vars, config_vars, out_file, store_vars>>

Next ==
    \/ FetchOldUsers
    \/ FetchNewUsers
    \/ CreateUserIdMap
    \/ OpenInput
    \/ SetupWriter
    \/ SetupSqlite
    \/ ReadRecord
    \/ RewriteRecord
    \/ WriteTsv
    \/ WriteSqlite
    \/ FlushTsv
    \/ CommitSqlite
    \/ PrintSummary
    \/ Rerun

Spec == Init /\ [][Next]_vars

NextResolve ==
    \/ FetchOldUsers
    \/ FetchNewUsers
    \/ CreateUserIdMap

SpecResolve == InitResolve /\ [][NextResolve]_vars


\* ----------------------------------------------------------------- claims
MapBuilt == pc \notin {"fetch_old", "fetch_new", "create_map"}

NamedIn(users, n) == {j \in 1..Len(users) : users[j].name = n}

\* C5: mapping correctness of create_user_id_map. Once the map is built, the
\* id of every old user is a key of it exactly when some new user carries the
\* old user's name, and the value is then the id of a new user of that name.
C5_MappingCorrectness ==
    MapBuilt =>
        \A i \in 1..Len(old_users_vec) :
            LET O == old_users_vec[i]
                matches == NamedIn(new_users_vec, O.name)
            IN  /\ (O.id \in DOMAIN user_id_map) <=> (matches # {})
                /\ matches # {} =>
                      \E j \in matches : user_id_map[O.id] = new_users_vec[j].id

\* An old user with a match beside one without has been resolved.
C5_Witness ==
    /\ MapBuilt
    /\ \E i, k \in 1..Len(old_users_vec) :
          /\ NamedIn(new_users_vec, old_users_vec[i].name) # {}
          /\ NamedIn(new_users_vec, old_users_vec[k].name) = {}
          /\ old_users_vec[i].id \in DOMAIN user_id_map

Last(S) == CHOOSE j \in S : \A k \in S : k <= j

\* C6: name-collision determinism. When several new users share a name, an
\* old user of that name is mapped to the id of the last of them in list order.
C6_LastNewUserWins ==
    MapBuilt =>
        \A i \in 1..Len(old_users_vec) :
            LET O == old_users_vec[i]
                matches == NamedIn(new_users_vec, O.name)
            IN  matches # {} =>
                    /\ O.id \in DOMAIN user_id_map
                    /\ user_id_map[O.id] = new_users_vec[Last(matches)].id

\* Two new users of different ids share the name of an old user.
C6_Witness ==
    /\ MapBuilt
    /\ \E i \in 1..Len(old_users_vec) :
          \E j, k \in NamedIn(new_users_vec, old_users_vec[i].name) :
              /\ j < k
              /\ new_users_vec[j].id # new_users_vec[k].id
              /\ user_id_map[old_users_vec[i].id] = new_users_vec[k].id


InLog(e) == \E i \in 1..Len(log) : log[i] = e

LogEndsWith(tail) ==
    /\ Len(log) >= Len(tail)
    /\ SubSeq(log, Len(log) - Len(tail) + 1, Len(log)) = tail

\* C1: atomicity of the relational sink. Once check_and_insert has failed on
\* a record, the run has ended and the table holds exactly the rows it held
\* when the run began, whatever rows the run had inserted before.
C1_Atomicity ==
    InLog("check_insert_failed") =>
        /\ pc = "aborted"
        /\ table = table_at_start
        /\ tx_rows = <<>>
        /\ ~tx_active

\* check_and_insert failed on a later record after a row of this run was
\* inserted, in a run against a table that already held rows.
C1_Witness ==
    /\ InLog("insert")
    /\ LogEndsWith(<<"check_insert_failed", "rollback">>)
    /\ records_processed = 2
    /\ table_at_start # <<>>
    /\ pc = "aborted"

SecondRunDone == run > 1 /\ pc = "done" /\ first_run.done /\ has_sqlite

\* C2: re-run idempotence. A second completed run on the same input and
\* identity map leaves the table as the first completed run left it and
\* inserts no row.
C2_RerunSameTable ==
    SecondRunDone =>
        /\ table = first_run.table
        /\ table = table_at_start
        /\ records_inserted_sqlite = 0

\* The first run inserted rows and the second run has completed.
C2_Witness ==
    /\ SecondRunDone
    /\ first_run.inserted = 2
    /\ records_processed = 2

\* C3 as stated: the duplicate-skipped count of the second run equals the
\* inserted count of the first.
C3_SkippedEqualsFirstInserted ==
    SecondRunDone => records_skipped_sqlite = first_run.inserted

\* C3 amended: the duplicate-skipped count of the second run equals the
\* number of records of the input, which is the inserted count of the first
\* run plus its duplicate-skipped count.
C3_SkippedEqualsFirstHandled ==
    SecondRunDone =>
        /\ records_skipped_sqlite = first_run.inserted + first_run.skipped
        /\ records_skipped_sqlite = first_run.processed
        /\ records_skipped_sqlite = records_processed

\* The first run both inserted and skipped, and the second run has completed.
C3_Witness ==
    /\ SecondRunDone
    /\ first_run.inserted = 1
    /\ first_run.skipped = 1
    /\ records_skipped_sqlite = 2

\* C9: a failed flat-file write while the transaction is open ends the run
\* aborted with the transaction discarded: the table holds the rows it held
\* when the run began.
C9_WriteFailureDiscardsTransaction ==
    (InLog("write_failed") /\ has_sqlite) =>
        /\ pc = "aborted"
        /\ outcome = "WriteError"
        /\ ~tx_active
        /\ tx_rows = <<>>
        /\ table = table_at_start

\* The write of the second record failed after the first was inserted.
C9_Witness ==
    /\ has_sqlite
    /\ InLog("begin")
    /\ InLog("insert")
    /\ LogEndsWith(<<"write_failed">>)
    /\ pc = "aborted"

\* C10: the original error is never masked. After a failed check_and_insert
\* or commit a rollback is attempted next, the run ends aborted, and the
\* error returned is the one of the failed call, also when the rollback fails.
C10_OriginalErrorPropagated ==
    /\ InLog("check_insert_failed") =>
          /\ \/ LogEndsWith(<<"check_insert_failed", "rollback">>)
             \/ LogEndsWith(<<"check_insert_failed", "rollback_failed">>)
          /\ pc = "aborted"
          /\ outcome = "InsertError"
    /\ InLog("commit_failed") =>
          /\ \/ LogEndsWith(<<"commit_failed", "rollback">>)
             \/ LogEndsWith(<<"commit_failed", "rollback_failed">>)
          /\ pc = "aborted"
          /\ outcome = "CommitError"
    /\ (InLog("rollback") \/ InLog("rollback_failed")) =>
          outcome \in {"InsertError", "CommitError"}

\* The commit failed and the rollback that followed failed too.
C10_Witness ==
    /\ LogEndsWith(<<"commit_failed", "rollback_failed">>)
    /\ InLog("insert")
    /\ pc = "aborted"
    /\ outcome = "CommitError"


\* The record the k-th row of the input must become: its nine fields by
\* position, the second (user id) replaced by its image when it is a key.
ExpectedOut(k) ==
    LET row == input[k]
    IN  [date_created |-> row[1],
         user_id |-> IF row[2] \in DOMAIN user_id_map THEN user_id_map[row[2]] ELSE row[2],
         item_id |-> row[3], item_type |-> row[4], item_name |-> row[5],
         playback_method |-> row[6], client_name |-> row[7], device_name |-> row[8],
         play_duration |-> row[9]]

\* Rows of the input that have passed the rewrite step.
RewriteDone ==
    IF pc = "rewrite" THEN records_processed - 1 ELSE records_processed

KeyedRows(n) == {k \in 1..n : input[k][2] \in DOMAIN user_id_map}

VisibleRows == table \o tx_rows

\* C7: record rewrite rule. The record handed to the sinks carries the
\* mapped user id when the input user id is a key of the identity map and
\* the input user id otherwise, its other eight fields are those of the
\* input row, and the rewritten count is the number of rows whose user id
\* was a key.
C7_RewriteRule ==
    /\ pc \in {"write_tsv", "write_sqlite"} => record = ExpectedOut(rdr_pos)
    /\ \A k \in 1..Len(wtr_records) : wtr_records[k] = ExpectedOut(k)
    /\ \A i \in 1..Len(tx_rows) : \E k \in 1..records_processed : tx_rows[i] = ExpectedOut(k)
    /\ records_changed = Cardinality(KeyedRows(RewriteDone))

\* Of two records handed to both sinks, one had a mapped user id and one had not.
C7_Witness ==
    /\ Len(wtr_records) = 2
    /\ Len(tx_rows) = 2
    /\ records_changed = 1
    /\ \E k \in 1..2 : wtr_records[k].user_id # input[k][2]
    /\ \E k \in 1..2 : wtr_records[k].user_id = input[k][2]

\* Records the writer must have accepted at this point of the run.
WriterDue ==
    CASE pc \in {"rewrite", "write_tsv"} -> records_processed - 1
      [] pc = "aborted" /\ LogEndsWith(<<"write_failed">>) -> records_processed - 1
      [] OTHER -> records_processed

\* C8: the flat-file sink mirrors the stream. With the flat-file sink
\* configured, the records the writer has accepted are the input rows
\* processed so far, each after the rewrite, in input order and one per row,
\* whether the relational sink inserted or skipped them.
C8_WriterMirrorsStream ==
    (has_tsv /\ pc \notin {"fetch_old", "fetch_new", "create_map", "open_input",
                           "setup_writer"}) =>
        /\ Len(wtr_records) = WriterDue
        /\ \A k \in 1..Len(wtr_records) : wtr_records[k] = ExpectedOut(k)

\* The writer accepted the same record twice while the table skipped the second.
C8_Witness ==
    /\ has_tsv
    /\ has_sqlite
    /\ Len(wtr_records) = 2
    /\ wtr_records[1] = wtr_records[2]
    /\ LogEndsWith(<<"write", "skip">>)
    /\ records_inserted_sqlite = 1

NoDuplicateRows(rows) ==
    \A i, j \in 1..Len(rows) : rows[i] = rows[j] => i = j

Present(rows, r) == \E i \in 1..Len(rows) : rows[i] = r

\* A step in which check_and_insert returned without a failure of the store.
CheckAndInsertReturns == pc = "write_sqlite" /\ has_sqlite /\ pc' = "read"

\* C4: check_and_insert is duplicate-safe. When it returns, it has inserted
\* the record and counted it as inserted exactly when no row equal to it on
\* all nine fields was present; otherwise it has counted it as skipped and
\* left the rows as they were, and the run goes on to the next row. The table
\* and the open transaction together never hold a record twice, and the same
\* record presented twice to an empty table is inserted once and skipped once.
C4_DuplicateSafe ==
    /\ [][CheckAndInsertReturns =>
            IF Present(VisibleRows, record)
            THEN /\ tx_rows' = tx_rows
                 /\ table' = table
                 /\ records_skipped_sqlite' = records_skipped_sqlite + 1
                 /\ records_inserted_sqlite' = records_inserted_sqlite
                 /\ outcome' = "running"
            ELSE /\ tx_rows' = Append(tx_rows, record)
                 /\ table' = table
                 /\ records_inserted_sqlite' = records_inserted_sqlite + 1
                 /\ records_skipped_sqlite' = records_skipped_sqlite
                 /\ outcome' = "running"]_vars
    /\ [](NoDuplicateRows(VisibleRows))
    /\ []((/\ has_sqlite
            /\ table_at_start = <<>>
            /\ pc = "read"
            /\ records_processed = 2
            /\ ExpectedOut(1) = ExpectedOut(2)) =>
               /\ records_inserted_sqlite = 1
               /\ records_skipped_sqlite = 1)

\* Two rows that differ in the input and are equal after the rewrite were
\* presented to an empty table: one inserted, one skipped.
C4_Witness ==
    /\ table_at_start = <<>>
    /\ run = 1
    /\ pc = "read"
    /\ Len(originals) = 2
    /\ originals[1] # originals[2]
    /\ tx_rows = <<ExpectedOut(1)>>
    /\ ExpectedOut(1) = ExpectedOut(2)
    /\ records_inserted_sqlite = 1
    /\ records_skipped_sqlite = 1

Count(e) == Cardinality({i \in 1..Len(log) : log[i] = e})

\* C11: a malformed row aborts at once. When the K-th row is malformed the
\* run has ended aborted with that error; the rows before it were processed,
\* the malformed row and the rows after it were neither passed over nor
\* handed to a sink, and the transaction of the run was not committed.
C11_MalformedRowAborts ==
    InLog("read_failed") =>
        /\ pc = "aborted"
        /\ outcome = "MalformedRecord"
        /\ LogEndsWith(<<"read_failed">>)
        /\ ~WellFormed(input[rdr_pos])
        /\ \A k \in 1..(rdr_pos - 1) : WellFormed(input[k])
        /\ records_processed = rdr_pos - 1
        /\ Count("read") = rdr_pos - 1
        /\ Len(originals) = rdr_pos - 1
        /\ Len(wtr_records) = (IF has_tsv THEN rdr_pos - 1 ELSE 0)
        /\ Count("insert") + Count("skip") = (IF has_sqlite THEN rdr_pos - 1 ELSE 0)
        /\ ~InLog("commit")
        /\ ~tx_active
        /\ table = table_at_start

\* The second row was malformed, with a row after none: the first row had
\* reached both sinks.
C11_Witness ==
    /\ LogEndsWith(<<"read_failed">>)
    /\ rdr_pos = 2
    /\ records_processed = 1
    /\ Len(wtr_records) = 1
    /\ InLog("insert")
    /\ pc = "aborted"

\* C12: a failed BEGIN stops the run before streaming. The run has ended
\* aborted with the BEGIN error and processed count 0: no row was pulled, no
\* record was handed to the writer, and no check_and_insert, commit or
\* rollback was issued.
C12_BeginFailureStopsRun ==
    InLog("begin_failed") =>
        /\ pc = "aborted"
        /\ outcome = "BeginError"
        /\ log = <<"begin_failed">>
        /\ records_processed = 0
        /\ rdr_pos = 0
        /\ originals = <<>>
        /\ wtr_records = <<>>
        /\ tx_rows = <<>>
        /\ ~tx_active
        /\ table = table_at_start

\* BEGIN failed with both sinks configured and rows waiting in the input.
C12_Witness ==
    /\ log = <<"begin_failed">>
    /\ has_tsv
    /\ has_sqlite
    /\ Len(input) = 2
    /\ WellFormed(input[1])
    /\ pc = "aborted"

\* The errors process_tsv_file can return.
PipelineErrors ==
    {"IoError", "OpenError", "BeginError", "MalformedRecord", "WriteError",
     "InsertError", "FlushError", "CommitError"}

\* C13: a failed user fetch is not fatal and yields pass-through. The list
\* of an instance whose fetch failed is empty and the run goes on (it aborts
\* only on an error of the streaming pass); no row is read before both
\* fetches have returned; and with either list empty the identity map is
\* empty, every record reaches the sinks with the user id of its input row,
\* and the rewritten count is 0.
C13_FetchFailurePassThrough ==
    /\ "old" \in fetch_failed => (pc # "fetch_old" /\ old_users_vec = <<>>)
    /\ "new" \in fetch_failed => (pc \notin {"fetch_old", "fetch_new"} /\ new_users_vec = <<>>)
    /\ pc = "aborted" => outcome \in PipelineErrors
    /\ pc \in {"fetch_old", "fetch_new", "create_map"} =>
          (rdr_pos = 0 /\ records_processed = 0 /\ log = <<>> /\ outcome = "running")
    /\ (MapBuilt /\ (old_users_vec = <<>> \/ new_users_vec = <<>>)) =>
          /\ user_id_map = EmptyMap
          /\ records_changed = 0
          /\ changes_summary = EmptyMap
          /\ pc \in {"write_tsv", "write_sqlite"} => record.user_id = input[rdr_pos][2]
          /\ \A k \in 1..Len(wtr_records) : wtr_records[k].user_id = input[k][2]
          /\ \A i \in 1..Len(tx_rows) :
                \E k \in 1..records_processed : tx_rows[i].user_id = input[k][2]

\* The fetch from the new instance failed where the two instances share a
\* name: the run completed and both records went through unchanged.
C13_Witness ==
    /\ fetch_failed = {"new"}
    /\ create_user_id_map(server_old, server_new) # EmptyMap
    /\ pc = "done"
    /\ records_processed = 2
    /\ records_changed = 0
    /\ Len(wtr_records) = 2
    /\ input[1][2] \in DOMAIN create_user_id_map(server_old, server_new)
    /\ wtr_records[1].user_id = input[1][2]

\* C14: flat-file round-trip. With an empty identity map and the flat-file
\* sink configured, the rows of the output file of a completed run are the
\* rows of the input file.
C14_RoundTrip ==
    (has_tsv /\ user_id_map = EmptyMap /\ pc = "done") => out_file = input

\* C15 as stated: with both sinks configured the commit is issued after the
\* last record and before the flat-file sink is flushed.
C15_CommitBeforeFlush ==
    (has_tsv /\ has_sqlite /\ InLog("flush")) => InLog("commit")

\* The state of the run, after the position of control.
Phase ==
    CASE pc \in {"fetch_old", "fetch_new", "create_map", "open_input",
                 "setup_writer", "setup_sqlite"} -> "Init"
      [] pc = "read" /\ rdr_pos = 0 -> "SinksConfigured"
      [] pc \in {"read", "rewrite", "write_tsv", "write_sqlite"} -> "Streaming"
      [] pc = "flush" -> "Flushing"
      [] pc = "commit" -> IF has_sqlite THEN "Committing" ELSE "Flushing"
      [] pc = "summary" -> "Summarising"
      [] pc = "done" -> "Done"
      [] OTHER -> "Aborted"

PhaseStep(from, to) ==
    \/ from = to /\ from \notin {"Done", "Aborted"}
    \/ from = "Init" /\ to \in {"SinksConfigured", "Aborted"}
    \/ from = "SinksConfigured" /\ to \in {"Streaming", "Flushing", "Aborted"}
    \/ from = "Streaming" /\ to \in {"Flushing", "Aborted"}
    \/ from = "Flushing" /\ to = "Committing" /\ has_sqlite
    \/ from = "Flushing" /\ to = "Summarising" /\ ~has_sqlite
    \/ from = "Flushing" /\ to = "Aborted" /\ has_tsv
    \/ from = "Committing" /\ to \in {"Summarising", "Aborted"}
    \/ from = "Summarising" /\ to = "Done"
    \/ from \in {"Done", "Aborted"} /\ to = "Init" /\ run' = run + 1

\* C15 amended: a run moves Init -> SinksConfigured -> Streaming -> flush of
\* the flat-file sink -> Committing (only with the relational sink) ->
\* summary -> Done. With both sinks configured the flat-file sink is flushed
\* after the last record and before the commit is issued, and a completed
\* run has committed. The run aborts from Init (a file or the connection
\* cannot be opened, BEGIN fails), while streaming, at the flush or while
\* committing.
C15_FlushThenCommit ==
    /\ [][PhaseStep(Phase, Phase')]_vars
    /\ []((InLog("commit") \/ InLog("commit_failed")) =>
             /\ has_sqlite
             /\ rdr_pos = Len(input)
             /\ records_processed = Len(input)
             /\ has_tsv => \E i \in 1..(Len(log) - 1) :
                               /\ log[i] = "flush"
                               /\ log[i + 1] \in {"commit", "commit_failed"})
    /\ [](InLog("flush") => (has_tsv /\ rdr_pos = Len(input)))
    /\ [](pc = "done" =>
             /\ has_sqlite => LogEndsWith(<<"commit">>)
             /\ (has_tsv /\ ~has_sqlite) => LogEndsWith(<<"flush">>)
             /\ (has_tsv /\ has_sqlite) => LogEndsWith(<<"flush", "commit">>))

\* A run with both sinks has flushed, committed and completed.
C15_Witness ==
    /\ pc = "done"
    /\ has_tsv
    /\ has_sqlite
    /\ records_processed = 2
    /\ LogEndsWith(<<"flush", "commit">>)

\* Calls made for one record, and what may stand at each place of its block.
StreamEvents ==
    {"read", "read_failed", "rewrite", "write", "write_failed",
     "insert", "skip", "check_insert_failed"}

BlockLen == 2 + (IF has_tsv THEN 1 ELSE 0) + (IF has_sqlite THEN 1 ELSE 0)

AllowedAt(offset) ==
    CASE offset = 0 -> {"read", "read_failed"}
      [] offset = 1 -> {"rewrite"}
      [] offset = 2 /\ has_tsv -> {"write", "write_failed"}
      [] OTHER -> {"insert", "skip", "check_insert_failed"}

\* Calls logged before the first record: the BEGIN of the relational sink.
LogOffset == IF has_sqlite THEN 1 ELSE 0

\* C16: per-record synchronous ordering. Rows are pulled in file order and
\* the calls for each record are count, rewrite, flat-file write (if
\* configured), check_and_insert (if configured), all made before the next
\* row is pulled; so when check_and_insert fails on record K, records 1..K
\* have been handed to the writer and the processed count is K.
C16_PerRecordOrder ==
    /\ \A i \in 1..Len(log) :
          log[i] \in StreamEvents =>
              /\ i > LogOffset
              /\ log[i] \in AllowedAt((i - 1 - LogOffset) % BlockLen)
              /\ \A j \in (LogOffset + 1)..i : log[j] \in StreamEvents
    /\ \A k \in 1..Len(originals) : Serialize(originals[k]) = input[k]
    /\ Count("read") = records_processed
    /\ records_processed \in {rdr_pos, rdr_pos - 1}
    /\ InLog("check_insert_failed") =>
          /\ records_processed = rdr_pos
          /\ Count("read") = rdr_pos
          /\ Count("rewrite") = rdr_pos
          /\ Count("insert") + Count("skip") = rdr_pos - 1
          /\ has_tsv => (Len(wtr_records) = rdr_pos /\ Count("write") = rdr_pos)

\* check_and_insert failed on the second record with both sinks configured.
C16_Witness ==
    /\ has_tsv
    /\ has_sqlite
    /\ InLog("check_insert_failed")
    /\ rdr_pos = 2
    /\ Len(wtr_records) = 2
    /\ records_processed = 2
    /\ pc = "aborted"

RECURSIVE SumCounts(_, _)
SumCounts(summary, keys) ==
    IF keys = {} THEN 0
    ELSE LET k == CHOOSE x \in keys : TRUE
         IN  summary[k].count + SumCounts(summary, keys \ {k})

RowsOfUser(n, o) == {k \in 1..n : input[k][2] = o}

\* C17: change summary consistency. At every point the summary has an entry
\* for an old id exactly when a record that has passed the rewrite had that
\* id as its user id and the id is a key of the identity map; the entry is
\* the mapped id with the number of such records; and the counts of all
\* entries add up to the rewritten count.
C17_ChangeSummaryConsistent ==
    /\ DOMAIN changes_summary = {input[k][2] : k \in KeyedRows(RewriteDone)}
    /\ \A o \in DOMAIN changes_summary :
          /\ changes_summary[o].new_id = user_id_map[o]
          /\ changes_summary[o].count = Cardinality(RowsOfUser(RewriteDone, o))
    /\ SumCounts(changes_summary, DOMAIN changes_summary) = records_changed

\* Two records of the same mapped user have been rewritten.
C17_Witness ==
    /\ records_changed = 2
    /\ Cardinality(DOMAIN changes_summary) = 1
    /\ \E o \in DOMAIN changes_summary : changes_summary[o].count = 2

\* C18: run statistics. Within a run none of the four counters decreases;
\* the rewritten count never exceeds the processed count; and with the
\* relational sink configured, whenever the current record has been handled
\* without error the inserted and duplicate-skipped counts add up to the
\* processed count, which at the end of a completed run is the number of
\* rows of the input.
C18_RunStatistics ==
    /\ [][run' = run =>
            /\ records_processed' >= records_processed
            /\ records_changed' >= records_changed
            /\ records_inserted_sqlite' >= records_inserted_sqlite
            /\ records_skipped_sqlite' >= records_skipped_sqlite]_vars
    /\ [](records_changed <= records_processed)
    /\ []((has_sqlite /\ pc \in {"read", "flush", "commit", "summary", "done"}) =>
             records_inserted_sqlite + records_skipped_sqlite = records_processed)
    /\ []((has_sqlite /\ pc = "done") =>
             records_inserted_sqlite + records_skipped_sqlite = Len(input))
    /\ [](~has_sqlite => (records_inserted_sqlite = 0 /\ records_skipped_sqlite = 0))

\* A completed run of two rows inserted one record and skipped the other.
C18_Witness ==
    /\ has_sqlite
    /\ pc = "done"
    /\ Len(input) = 2
    /\ records_inserted_sqlite = 1
    /\ records_skipped_sqlite = 1
    /\ records_changed = 1

CheckInsertEvents == {"insert", "skip", "check_insert_failed"}
CommitEvents == {"commit", "commit_failed"}
RollbackEvents == {"rollback", "rollback_failed"}
FailureEvents == {"read_failed", "write_failed", "check_insert_failed", "flush_failed"}

CountIn(S) == Cardinality({i \in 1..Len(log) : log[i] \in S})

\* C19: transaction protocol. Every check_and_insert of a run follows its
\* successful BEGIN and precedes any commit or rollback; the commit is
\* issued at most once, and only after every row of the input has been
\* handled without error; a run never issues both a commit and the rollback
\* of a failed check_and_insert.
C19_TransactionProtocol ==
    /\ \A i \in 1..Len(log) :
          log[i] \in CheckInsertEvents =>
              /\ has_sqlite
              /\ log[1] = "begin"
              /\ \A j \in 1..(i - 1) : log[j] \notin (CommitEvents \cup RollbackEvents)
    /\ CountIn({"begin", "begin_failed"}) <= 1
    /\ CountIn(CommitEvents) <= 1
    /\ CountIn(RollbackEvents) <= 1
    /\ CountIn(CommitEvents) = 1 =>
          /\ log[1] = "begin"
          /\ Count("read") = Len(input)
          /\ Count("insert") + Count("skip") = Len(input)
          /\ CountIn(FailureEvents) = 0
    /\ CountIn(RollbackEvents) = 1 =>
          /\ Len(log) >= 2
          /\ log[Len(log) - 1] \in {"check_insert_failed", "commit_failed"}
          /\ log[Len(log)] \in RollbackEvents
          /\ pc = "aborted"
    /\ ~(InLog("check_insert_failed") /\ CountIn(CommitEvents) > 0)
    /\ tx_active => (log # <<>> /\ log[1] = "begin" /\ CountIn(CommitEvents \cup RollbackEvents) = 0)

\* Two records went through check_and_insert between BEGIN and COMMIT.
C19_Witness ==
    /\ has_sqlite
    /\ log # <<>>
    /\ log[1] = "begin"
    /\ Count("insert") + Count("skip") = 2
    /\ LogEndsWith(<<"commit">>)
    /\ pc = "summary"

\* Old ids whose image under the identity map is itself a key.
ChainedKeys ==
    {a \in DOMAIN user_id_map :
        /\ user_id_map[a] \in DOMAIN user_id_map
        /\ user_id_map[user_id_map[a]] # user_id_map[a]}

\* C20: the rewrite is a single step. A record whose user id a is mapped to
\* b, where b is itself mapped to c, reaches the sinks with user id b, and
\* the change summary counts it under a only.
C20_SingleStepRewrite ==
    /\ (pc \in {"write_tsv", "write_sqlite"} /\ input[rdr_pos][2] \in ChainedKeys) =>
          /\ record.user_id = user_id_map[input[rdr_pos][2]]
          /\ record.user_id # user_id_map[user_id_map[input[rdr_pos][2]]]
    /\ \A k \in 1..Len(wtr_records) :
          input[k][2] \in ChainedKeys =>
              /\ wtr_records[k].user_id = user_id_map[input[k][2]]
              /\ wtr_records[k].user_id # user_id_map[user_id_map[input[k][2]]]
    /\ \A o \in DOMAIN changes_summary :
          /\ RowsOfUser(RewriteDone, o) # {}
          /\ changes_summary[o].count = Cardinality(RowsOfUser(RewriteDone, o))
          /\ o \in ChainedKeys => changes_summary[o].new_id = user_id_map[o]

\* With u1 mapped to u2 and u2 to u3, a record of u1 was written as u2 and
\* inserted as u2, and only u1 has a summary entry.
C20_Witness ==
    /\ "u1" \in ChainedKeys
    /\ user_id_map["u1"] = "u2"
    /\ user_id_map["u2"] = "u3"
    /\ pc = "read"
    /\ records_processed = 1
    /\ input[1][2] = "u1"
    /\ wtr_records = <<ExpectedOut(1)>>
    /\ wtr_records[1].user_id = "u2"
    /\ tx_rows = wtr_records
    /\ DOMAIN changes_summary = {"u1"}

====
